---- MODULE Spec2Model ----
(***************************************************************************)
(* A model of tidy.py: a scan builds an index of file checksums            *)
(* (calc_cksums), the index may be written to or read from an index file   *)
(* (write_cksums / read_cksums), and a prune removes the files of a second *)
(* tree whose checksum and size match an index entry (prune_files).        *)
(*                                                                         *)
(* The filesystem holds two trees, "A" and "B".  "A" holds two regular     *)
(* files and a hidden one; "B" holds one regular file and, depending on    *)
(* the layout, a symbolic link to that file or a symbolic link to the      *)
(* directory "A".                                                          *)
(***************************************************************************)
EXTENDS Integers, Sequences, FiniteSets, TLC

\* ---------------------------------------------------------------- bounds
\* Checksums are 1..MaxCk.
MaxCk == 2

Cks == 1..MaxCk
\* File sizes in bytes (the 5-byte file and its 7-byte collision).
Sizes == {5, 7}

\* ------------------------------------------------------------ option type
None == <<>>
Some(x) == <<x>>
IsSome(o) == o # <<>>
Get(o) == o[1]

\* ------------------------------------------------------------- filesystem
\* The regular files that can be on disk.
RealFiles == {"A/f1", "A/f2", "A/.h", "B/g1"}
\* Every path the directory walk can meet.  B/lnk is a symbolic link to the
\* file B/g1 and B/ldir a symbolic link to the directory A.
Paths == RealFiles \cup {"B/lnk", "B/ldir/f1", "B/ldir/f2", "B/ldir/.h"}
Roots == {"A", "B"}
Layouts == {"plain", "filelink_first", "filelink_last", "dirlink"}

\* The regular file a path resolves to (symbolic links followed).
Target(p) ==
    CASE p = "B/lnk" -> "B/g1"
      [] p = "B/ldir/f1" -> "A/f1"
      [] p = "B/ldir/f2" -> "A/f2"
      [] p = "B/ldir/.h" -> "A/.h"
      [] OTHER -> p

\* The symbolic link a path goes through, if any.
Via(p) ==
    CASE p = "B/lnk" -> {"B/lnk"}
      [] p \in {"B/ldir/f1", "B/ldir/f2", "B/ldir/.h"} -> {"B/ldir"}
      [] OTHER -> {}

\* Does the path name a directory entry at all (os.path.lexists)?
LExists(p, d, l) ==
    IF p = "B/lnk" THEN p \in l
    ELSE Via(p) \subseteq l /\ Target(p) \in DOMAIN d

\* os.path.isfile: follows symbolic links.
IsFile(p, d, l) == Via(p) \subseteq l /\ Target(p) \in DOMAIN d

\* os.path.getsize: the size of the file the path resolves to.
GetSize(p, d) == d[Target(p)].size

\* Is the last component of the path a dot-file?
IsHidden(p) == p \in {"A/.h", "B/ldir/.h"}

\* The paths glob.iglob(root + '/**', recursive=True) yields, in directory
\* order: '**' does not match dot-files and it descends into symbolic links
\* to directories.  The order of the entries of "B" depends on the layout.
GlobAll(root, lay) ==
    IF root = "A" THEN <<"A/f1", "A/f2", "A/.h">>
    ELSE IF lay = "filelink_first"
         THEN <<"B/lnk", "B/g1", "B/ldir/f1", "B/ldir/f2", "B/ldir/.h">>
         ELSE <<"B/g1", "B/lnk", "B/ldir/f1", "B/ldir/f2", "B/ldir/.h">>

GlobMatches(p) == ~IsHidden(p)

\* find_files: [(f, getsize(f)) for f in iglob(...) if isfile(f)]
RECURSIVE FindFrom(_, _, _, _)
FindFrom(s, k, d, l) ==
    IF k > Len(s) THEN <<>>
    ELSE IF GlobMatches(s[k]) /\ IsFile(s[k], d, l)
         THEN <<[path |-> s[k], size |-> GetSize(s[k], d)]>> \o FindFrom(s, k + 1, d, l)
         ELSE FindFrom(s, k + 1, d, l)

find_files(root, lay, d, l) == FindFrom(GlobAll(root, lay), 1, d, l)

\* The tree a regular file is stored in.
DirOf(f) == IF f \in {"A/f1", "A/f2", "A/.h"} THEN "A" ELSE "B"

RemoveDiskDir(p, d) ==
    [f \in {g \in DOMAIN d : DirOf(g) # DirOf(Target(p))} |-> d[f]]
\* os.remove: unlinks the directory entry; a symbolic link to a file is
\* removed itself, a path through a linked directory removes the real file.
RemoveDisk(p, d) ==
    IF p = "B/lnk" THEN d
    ELSE [f \in DOMAIN d \ {Target(p)} |-> d[f]]
RemoveLinks(p, l) == IF p = "B/lnk" THEN l \ {p} ELSE l

\* --------------------------------------------------------------- index
DumpNoPath(fh) == {<<c, fh[c].size, "">> : c \in DOMAIN fh}
\* pickle.dump / pickle.load: the mapping is stored as its items.
Dump(fh) == {<<c, fh[c].size, fh[c].path>> : c \in DOMAIN fh}
Load(blob) ==
    [c \in {t[1] : t \in blob} |->
        LET t == CHOOSE u \in blob : u[1] = c
        IN  [size |-> t[2], path |-> t[3]]]

EmptyIndex == [c \in {} |-> [size |-> 0, path |-> ""]]
\* The index files a previous scan may have left behind.
OldIndexes ==
    {EmptyIndex} \cup
    {[c \in {1} |-> [size |-> s, path |-> "A/f1"]] : s \in Sizes}

\* --------------------------------------------------------------- prompts
Answers == {"y", "Y", "n", "yes"}
\* str.lower()
Lower(a) == IF a = "Y" THEN "y" ELSE a
\* The answer typed is the letter y, in either case.
Affirmative(a) == a \in {"y", "Y"}

RECURSIVE SumSizes(_)
SumSizes(s) == IF s = <<>> THEN 0 ELSE Head(s).size + SumSizes(Tail(s))

VARIABLES
    scanpath, prunepath, dbfile, dry, verbose,  \* parsed arguments
    layout,                                     \* directory order / links of "B"
    disk, links, dbf,                           \* filesystem
    disk0, links0, dbf0,                        \* filesystem at start
    pc, err, exitcode,
    files, i,                                   \* loop over find_files' list
    filehash, duplicates,
    go_ahead, really_go_ahead,
    delcount, delsz,
    cand,                                       \* paths chosen for deletion
    prompts,                                    \* prompts issued, in order
    ops,                                        \* filesystem operations done
    out,                                        \* messages printed
    run,                                        \* number of the invocation
    prev                                        \* what the invocation before left

args == <<scanpath, prunepath, dbfile, dry, verbose, layout>>
fs == <<disk, links, dbf>>
fs0 == <<disk0, links0, dbf0>>
vars == <<args, fs, fs0, pc, err, exitcode, files, i, filehash, duplicates,
          go_ahead, really_go_ahead, delcount, delsz, cand, prompts, ops, out,
          run, prev>>

LinksOf(lay) ==
    CASE lay = "plain" -> {}
      [] lay = "dirlink" -> {"B/ldir"}
      [] OTHER -> {"B/lnk"}

Init ==
    /\ scanpath \in {None} \cup {Some(r) : r \in Roots}
    /\ prunepath \in {None} \cup {Some(r) : r \in Roots}
    /\ dbfile \in {None, Some("F")}
    /\ dry \in BOOLEAN
    /\ verbose \in BOOLEAN
    /\ layout \in Layouts
    /\ disk \in [RealFiles -> [ck : Cks, size : Sizes]]
    \* checksums are interchangeable: the first file's is 1
    /\ disk["A/f1"].ck = 1
    /\ disk["A/.h"] = [ck |-> 1, size |-> 5]
    /\ links = LinksOf(layout)
    /\ dbf \in {None} \cup {Some(Dump(x)) : x \in OldIndexes}
    /\ dbfile = None => dbf = None
    /\ disk0 = disk /\ links0 = links /\ dbf0 = dbf
    /\ pc = "main" /\ err = "" /\ exitcode = 0
    /\ files = <<>> /\ i = 0
    /\ filehash = None /\ duplicates = <<>>
    /\ go_ahead = "" /\ really_go_ahead = ""
    /\ delcount = 0 /\ delsz = 0
    /\ cand = {}
    /\ prompts = <<>>
    /\ ops = {}
    /\ out = {}
    /\ run = 1
    /\ prev = None

\* ------------------------------------------------------------ fingerprint
\* cksum(fname): runs the cksum tool and parses "<checksum> <size> <name>".
\* The tool prints nothing on stdout when it cannot read the file, and the
\* unpacking at line 35 then raises: the result is None.
cksum(p, d, l, toolok) ==
    IF toolok /\ IsFile(p, d, l)
    THEN Some([ck |-> d[Target(p)].ck, size |-> d[Target(p)].size, path |-> p])
    ELSE None

\* why the fingerprint failed: the tool itself, or the file is gone
CksumError(toolok) == IF toolok THEN "cksum: no such file" ELSE "cksum: failed"
CksumErrors == {"cksum: no such file", "cksum: failed"}

\* ------------------------------------------------------------------ main
UsefulAny(sp, db, pp) == IsSome(sp) \/ IsSome(db) \/ IsSome(pp)
\* line 187: the invocation has something to do
Useful(sp, db, pp) == IsSome(sp) \/ (IsSome(db) /\ IsSome(pp))

AfterIndexReread ==
    IF IsSome(dbfile) /\ "read" \notin ops THEN "read"
    ELSE IF IsSome(prunepath) THEN "prune" ELSE "done"
\* where main continues once the index is in memory (line 199)
AfterIndex == IF IsSome(prunepath) THEN "prune" ELSE "done"

Main ==
    /\ pc = "main"
    /\ IF ~Useful(scanpath, dbfile, prunepath)
       THEN /\ out' = out \cup {<<"Nothing useful to do.">>}
            /\ exitcode' = 1
            /\ pc' = "exit"
       ELSE /\ pc' = IF IsSome(scanpath) THEN "scan" ELSE "read"
            /\ UNCHANGED <<out, exitcode>>
    /\ UNCHANGED <<args, run, prev, fs, fs0, err, files, i, filehash, duplicates, go_ahead,
                   really_go_ahead, delcount, delsz, cand, prompts, ops>>

\* ------------------------------------------------------------------ scan
ScanFindIncremental ==
    /\ pc = "scan"
    /\ files' = find_files(Get(scanpath), layout, disk, links)
    /\ i' = 1
    /\ filehash' = IF IsSome(dbf) THEN Some(Load(Get(dbf))) ELSE Some(EmptyIndex)
    /\ duplicates' = <<>>
    /\ ops' = ops \cup {"scan:find"}
    /\ out' = out \cup {<<"Found", Get(scanpath), Len(files'), SumSizes(files')>>}
    /\ pc' = "scan_loop"
    /\ UNCHANGED <<args, run, prev, fs, fs0, err, exitcode, go_ahead, really_go_ahead,
                   delcount, delsz, cand, prompts>>
\* scan_files lines 83-86 and calc_cksums lines 59-60
ScanFind ==
    /\ pc = "scan"
    /\ files' = find_files(Get(scanpath), layout, disk, links)
    /\ i' = 1
    /\ filehash' = Some(EmptyIndex)
    /\ duplicates' = <<>>
    /\ ops' = ops \cup {"scan:find"}
    /\ out' = out \cup {<<"Found", Get(scanpath), Len(files'), SumSizes(files')>>}
    /\ pc' = "scan_loop"
    /\ UNCHANGED <<args, run, prev, fs, fs0, err, exitcode, go_ahead, really_go_ahead,
                   delcount, delsz, cand, prompts>>

\* lines 70-75: the first file with a checksum becomes its entry
InsertSmallest(fh, r) ==
    IF r.ck \in DOMAIN fh /\ r.size >= fh[r.ck].size THEN fh
    ELSE [c \in DOMAIN fh \cup {r.ck} |->
            IF c = r.ck THEN [size |-> r.size, path |-> r.path] ELSE fh[c]]
InsertLast(fh, r) ==
    [c \in DOMAIN fh \cup {r.ck} |->
        IF c = r.ck THEN [size |-> r.size, path |-> r.path] ELSE fh[c]]
InsertFirst(fh, r) ==
    IF r.ck \in DOMAIN fh THEN fh
    ELSE [c \in DOMAIN fh \cup {r.ck} |->
            IF c = r.ck THEN [size |-> r.size, path |-> r.path] ELSE fh[c]]

\* one iteration of the loop of calc_cksums, lines 64-77
ScanStep ==
    /\ pc = "scan_loop"
    /\ i <= Len(files)
    /\ \E toolok \in BOOLEAN :
         LET r == cksum(files[i].path, disk, links, toolok) IN
         /\ ops' = ops \cup {"scan:cksum"}
         /\ IF r = None
            THEN /\ pc' = "crashed"
                 /\ err' = CksumError(toolok)
                 /\ exitcode' = 1
                 /\ UNCHANGED <<i, filehash, duplicates, out>>
            ELSE /\ filehash' = Some(InsertFirst(Get(filehash), Get(r)))
                 /\ duplicates' =
                        IF Get(r).ck \in DOMAIN Get(filehash)
                        THEN Append(duplicates, <<Get(r).ck, Get(r).size, Get(r).path>>)
                        ELSE duplicates
                 /\ out' = IF verbose /\ Get(r).ck \in DOMAIN Get(filehash)
                           THEN out \cup {<<"DUPLICATE", files[i].path>>}
                           ELSE out
                 /\ i' = i + 1
                 /\ UNCHANGED <<pc, err, exitcode>>
    /\ UNCHANGED <<args, run, prev, fs, fs0, files, go_ahead, really_go_ahead, delcount,
                   delsz, cand, prompts>>

\* calc_cksums returns (line 78), scan_files prints and returns (90-94),
\* main goes on (lines 192-193)
ScanReturn ==
    /\ pc = "scan_loop"
    /\ i > Len(files)
    /\ out' = out \cup {<<"unique", Cardinality(DOMAIN Get(filehash)), Len(duplicates)>>}
    /\ pc' = IF IsSome(dbfile) THEN "write" ELSE AfterIndex
    /\ UNCHANGED <<args, run, prev, fs, fs0, err, exitcode, files, i, filehash, duplicates,
                   go_ahead, really_go_ahead, delcount, delsz, cand, prompts, ops>>

\* ----------------------------------------------------------- index file
OverwriteNeverDeclined(a) == FALSE
\* line 100: the overwrite is declined
OverwriteDeclined(a) == Lower(a) # "y"

\* write_cksums, lines 97-105
write_cksums ==
    /\ pc = "write"
    /\ IF IsSome(dbf)
       THEN \E a \in Answers :
              /\ prompts' = Append(prompts, [q |-> "overwrite", yes |-> Affirmative(a)])
              /\ IF OverwriteDeclined(a)
                 THEN UNCHANGED <<dbf, ops, out>>
                 ELSE /\ dbf' = Some(Dump(Get(filehash)))
                      /\ ops' = ops \cup {"write"}
                      /\ out' = out \cup {<<"Writing", Cardinality(DOMAIN Get(filehash))>>}
       ELSE /\ dbf' = Some(Dump(Get(filehash)))
            /\ ops' = ops \cup {"write"}
            /\ out' = out \cup {<<"Writing", Cardinality(DOMAIN Get(filehash))>>}
            /\ UNCHANGED prompts
    /\ pc' = AfterIndex
    /\ UNCHANGED <<args, run, prev, disk, links, fs0, err, exitcode, files, i, filehash,
                   duplicates, go_ahead, really_go_ahead, delcount, delsz, cand>>

\* read_cksums, lines 107-111; open() raises when the file does not exist
read_cksums ==
    /\ pc = "read"
    /\ ops' = ops \cup {"read"}
    /\ IF IsSome(dbf)
       THEN /\ filehash' = Some(Load(Get(dbf)))
            /\ out' = out \cup {<<"Read", Cardinality(Get(dbf))>>}
            /\ pc' = AfterIndex
            /\ UNCHANGED <<err, exitcode>>
       ELSE /\ pc' = "crashed"
            /\ err' = "open"
            /\ exitcode' = 1
            /\ UNCHANGED <<filehash, out>>
    /\ UNCHANGED <<args, run, prev, fs, fs0, files, i, duplicates, go_ahead, really_go_ahead,
                   delcount, delsz, cand, prompts>>

\* ----------------------------------------------------------------- prune
\* lines 127 and 130: a confirmation is declined
DeclinedOnlyN(a) == Lower(a) = "n"
Declined(a) == Lower(a) # "y"

\* lines 125-128: the first confirmation of a run that is not dry
PruneAsk1 ==
    /\ pc = "prune"
    /\ ~dry
    /\ \E a \in Answers :
         /\ go_ahead' = Lower(a)
         /\ prompts' = Append(prompts, [q |-> "continue", yes |-> Affirmative(a)])
         /\ pc' = IF Declined(a) THEN "done" ELSE "prune_sure"
    /\ UNCHANGED <<args, run, prev, fs, fs0, err, exitcode, files, i, filehash, duplicates,
                   really_go_ahead, delcount, delsz, cand, ops, out>>

\* lines 129-131: the second confirmation
PruneAsk2 ==
    /\ pc = "prune_sure"
    /\ \E a \in Answers :
         /\ really_go_ahead' = Lower(a)
         /\ prompts' = Append(prompts, [q |-> "sure", yes |-> Affirmative(a)])
         /\ pc' = IF Declined(a) THEN "done" ELSE "prune_find"
    /\ UNCHANGED <<args, run, prev, fs, fs0, err, exitcode, files, i, filehash, duplicates,
                   go_ahead, delcount, delsz, cand, ops, out>>

\* line 125: a dry run asks for no confirmation
NeedsConfirmNever(d) == FALSE
NeedsConfirm(d) == ~d

\* lines 134-141: the list of files of the target, the counters
PruneFind ==
    /\ \/ pc = "prune_find"
       \/ pc = "prune" /\ ~NeedsConfirm(dry)
    /\ files' = find_files(Get(prunepath), layout, disk, links)
    /\ i' = 1
    /\ delcount' = 0
    /\ delsz' = 0
    /\ ops' = ops \cup {"prune:find"}
    /\ out' = out \cup {<<"Found", Get(prunepath), Len(files'), SumSizes(files')>>}
    /\ pc' = "prune_loop"
    /\ UNCHANGED <<args, run, prev, fs, fs0, err, exitcode, filehash, duplicates, go_ahead,
                   really_go_ahead, cand, prompts>>

\* lines 149-150: the checksum is a key of the index and the size found by
\* find_files equals the size stored under it
MatchesCkOnly(fh, ck, sz) == ck \in DOMAIN fh
Matches(fh, ck, sz) == ck \in DOMAIN fh /\ sz = fh[ck].size

\* line 151: the file is removed
RemovesAlways(d) == TRUE
RemovesInverted(d) == d
Removes(d) == ~d

\* one iteration of the loop of prune_files, lines 143-166
PruneStep ==
    /\ pc = "prune_loop"
    /\ i <= Len(files)
    /\ \E toolok \in BOOLEAN :
         LET f == files[i].path
             sz == files[i].size
             r == cksum(f, disk, links, toolok)
         IN
         /\ ops' = ops \cup {"prune:cksum"} \cup
                     (IF r # None /\ Matches(Get(filehash), Get(r).ck, sz) /\ Removes(dry)
                      THEN {"prune:remove"} ELSE {})
         /\ IF r = None
            THEN /\ pc' = "crashed"
                 /\ err' = CksumError(toolok)
                 /\ exitcode' = 1
                 /\ UNCHANGED <<i, disk, links, delcount, delsz, cand, out>>
            ELSE /\ IF Matches(Get(filehash), Get(r).ck, sz)
                    THEN /\ IF Removes(dry)
                            THEN /\ disk' = RemoveDisk(f, disk)
                                 /\ links' = RemoveLinks(f, links)
                                 /\ out' = IF verbose THEN out \cup {<<"DELETED", f>>}
                                           ELSE out
                            ELSE /\ UNCHANGED <<disk, links>>
                                 /\ out' = IF verbose THEN out \cup {<<"WOULD DELETE", f>>}
                                           ELSE out
                         /\ delcount' = delcount + 1
                         /\ delsz' = delsz + sz
                         /\ cand' = cand \cup {f}
                    ELSE /\ out' = IF verbose /\ Get(r).ck \in DOMAIN Get(filehash)
                                   THEN out \cup {<<"SIZES DO NOT MATCH, NOT DELETED", f>>}
                                   ELSE out
                         /\ UNCHANGED <<disk, links, delcount, delsz, cand>>
                 /\ i' = i + 1
                 /\ UNCHANGED <<pc, err, exitcode>>
    /\ UNCHANGED <<args, run, prev, dbf, fs0, files, filehash, duplicates, go_ahead,
                   really_go_ahead, prompts>>

\* lines 167-170: the summary; prune_files and main return
PruneReturn ==
    /\ pc = "prune_loop"
    /\ i > Len(files)
    /\ out' = out \cup {<<IF dry THEN "Found to prune" ELSE "Deleted", delcount, delsz>>}
    /\ pc' = "done"
    /\ UNCHANGED <<args, run, prev, fs, fs0, err, exitcode, files, i, filehash, duplicates,
                   go_ahead, really_go_ahead, delcount, delsz, cand, prompts, ops>>

Next ==
    \/ Main
    \/ ScanFind
    \/ ScanStep
    \/ ScanReturn
    \/ write_cksums
    \/ read_cksums
    \/ PruneAsk1
    \/ PruneAsk2
    \/ PruneFind
    \/ PruneStep
    \/ PruneReturn

Spec == Init /\ [][Next]_vars

\* ------------------------------------------------- a second invocation
\* The program is started again on the filesystem the first invocation
\* left: with the same command line, or to prune a tree from the index
\* file.  A new process starts with nothing in memory.
Again ==
    /\ pc = "done"
    /\ run = 1
    /\ run' = 2
    /\ prev' = Some([filehash |-> filehash, duplicates |-> duplicates,
                     files |-> files, wrote |-> "write" \in ops,
                     scanpath |-> scanpath])
    /\ \/ UNCHANGED <<scanpath, prunepath, dry>>
       \/ /\ IsSome(dbfile)
          /\ scanpath' = None
          /\ prunepath' \in {Some(r) : r \in Roots}
          /\ dry' \in BOOLEAN
    /\ disk0' = disk /\ links0' = links /\ dbf0' = dbf
    /\ pc' = "main" /\ err' = "" /\ exitcode' = 0
    /\ files' = <<>> /\ i' = 0
    /\ filehash' = None /\ duplicates' = <<>>
    /\ go_ahead' = "" /\ really_go_ahead' = ""
    /\ delcount' = 0 /\ delsz' = 0
    /\ cand' = {}
    /\ prompts' = <<>>
    /\ ops' = {}
    /\ out' = {}
    /\ UNCHANGED <<dbfile, verbose, layout, fs>>

\* The first invocation is a scan, the second follows it.
InitTwice == Init /\ IsSome(scanpath) /\ prunepath = None /\ ~dry
NextTwice == Next \/ Again
SpecTwice == InitTwice /\ [][NextTwice]_vars

\* ------------------------------------------- find_files, one path at a time
\* The list comprehension of find_files (lines 45-48) taken apart: for each
\* path the walk yields, os.path.isfile is evaluated first and, if true,
\* os.path.getsize after it.  Another actor may remove a regular file
\* between any two of these steps.
MaxVanish == 1
GetsizeError == "getsize: no such file"
InScanWalk == pc \in {"scan_isfile", "scan_getsize"}
InPruneWalk == pc \in {"prune_isfile", "prune_getsize"}
\* the paths glob.iglob yields for the tree being listed
Walk == GlobAll(Get(IF InScanWalk THEN scanpath ELSE prunepath), layout)

\* scan_files line 83 calls find_files
ScanWalk ==
    /\ pc = "scan"
    /\ files' = <<>>
    /\ i' = 1
    /\ ops' = ops \cup {"scan:find"}
    /\ pc' = "scan_isfile"
    /\ UNCHANGED <<args, run, prev, fs, fs0, err, exitcode, filehash, duplicates,
                   go_ahead, really_go_ahead, delcount, delsz, cand, prompts, out>>

\* prune_files line 134 calls find_files (a dry run asks nothing before)
PruneWalk ==
    /\ pc = "prune" /\ ~NeedsConfirm(dry)
    /\ files' = <<>>
    /\ i' = 1
    /\ ops' = ops \cup {"prune:find"}
    /\ pc' = "prune_isfile"
    /\ UNCHANGED <<args, run, prev, fs, fs0, err, exitcode, filehash, duplicates,
                   go_ahead, really_go_ahead, delcount, delsz, cand, prompts, out>>

\* line 48: `if os.path.isfile(f)` for the next path of the walk
FindIsFile ==
    /\ InScanWalk \/ InPruneWalk
    /\ pc \in {"scan_isfile", "prune_isfile"}
    /\ i <= Len(Walk)
    /\ IF GlobMatches(Walk[i]) /\ IsFile(Walk[i], disk, links)
       THEN /\ pc' = IF InScanWalk THEN "scan_getsize" ELSE "prune_getsize"
            /\ i' = i
       ELSE /\ pc' = pc
            /\ i' = i + 1
    /\ UNCHANGED <<args, run, prev, fs, fs0, err, exitcode, files, filehash, duplicates,
                   go_ahead, really_go_ahead, delcount, delsz, cand, prompts, ops, out>>

\* line 48: `(f, os.path.getsize(f))`; os.stat raises FileNotFoundError for
\* a path that is no longer there, and nothing catches it
FindGetSize ==
    /\ pc \in {"scan_getsize", "prune_getsize"}
    /\ IF IsFile(Walk[i], disk, links)
       THEN /\ files' = Append(files, [path |-> Walk[i],
                                       size |-> GetSize(Walk[i], disk)])
            /\ i' = i + 1
            /\ pc' = IF InScanWalk THEN "scan_isfile" ELSE "prune_isfile"
            /\ UNCHANGED <<err, exitcode>>
       ELSE /\ pc' = "crashed"
            /\ err' = GetsizeError
            /\ exitcode' = 1
            /\ UNCHANGED <<files, i>>
    /\ UNCHANGED <<args, run, prev, fs, fs0, filehash, duplicates, go_ahead,
                   really_go_ahead, delcount, delsz, cand, prompts, ops, out>>

\* find_files returns to scan_files (lines 84-86) and calc_cksums starts
ScanWalkReturn ==
    /\ pc = "scan_isfile"
    /\ i > Len(Walk)
    /\ i' = 1
    /\ filehash' = Some(EmptyIndex)
    /\ duplicates' = <<>>
    /\ out' = out \cup {<<"Found", Get(scanpath), Len(files), SumSizes(files)>>}
    /\ pc' = "scan_loop"
    /\ UNCHANGED <<args, run, prev, fs, fs0, err, exitcode, files, go_ahead,
                   really_go_ahead, delcount, delsz, cand, prompts, ops>>

\* find_files returns to prune_files (lines 135-141)
PruneWalkReturn ==
    /\ pc = "prune_isfile"
    /\ i > Len(Walk)
    /\ i' = 1
    /\ delcount' = 0
    /\ delsz' = 0
    /\ out' = out \cup {<<"Found", Get(prunepath), Len(files), SumSizes(files)>>}
    /\ pc' = "prune_loop"
    /\ UNCHANGED <<args, run, prev, fs, fs0, err, exitcode, files, filehash, duplicates,
                   go_ahead, really_go_ahead, cand, prompts, ops>>

\* Another actor removes a regular file while find_files is listing a tree.
OtherRemoves ==
    /\ InScanWalk \/ InPruneWalk
    /\ Cardinality(DOMAIN disk0 \ DOMAIN disk) < MaxVanish
    /\ \E p \in DOMAIN disk : disk' = RemoveDisk(p, disk)
    /\ UNCHANGED <<args, run, prev, links, dbf, fs0, pc, err, exitcode, files, i,
                   filehash, duplicates, go_ahead, really_go_ahead, delcount, delsz,
                   cand, prompts, ops, out>>

\* Dry runs without an index file: a scan, or a scan and a dry prune.
InitRace == Init /\ dbfile = None /\ dry /\ ~verbose
NextRace ==
    \/ Main
    \/ ScanWalk
    \/ PruneWalk
    \/ FindIsFile
    \/ FindGetSize
    \/ ScanWalkReturn
    \/ PruneWalkReturn
    \/ OtherRemoves
    \/ ScanStep
    \/ ScanReturn
    \/ PruneStep
    \/ PruneReturn
SpecRace == InitRace /\ [][NextRace]_vars

\* =================================================================
\* Properties
\* =================================================================

\* The prune confirmations answered so far, and whether one was declined.
Confirms == {k \in 1..Len(prompts) : prompts[k].q \in {"continue", "sure"}}
BothConfirmed ==
    /\ \E k \in Confirms : prompts[k].q = "continue" /\ prompts[k].yes
    /\ \E k \in Confirms : prompts[k].q = "sure" /\ prompts[k].yes
SomeDeclined == \E k \in Confirms : ~prompts[k].yes

\* The prune loop is running or has run: files is the list of the target.
InPrune == "prune:find" \in ops
PruneDone == InPrune /\ pc = "done"

\* Checksum and size of a path in the tree as it was at the start.
Ck0(p) == disk0[Target(p)].ck
Size0(p) == disk0[Target(p)].size
\* The path's checksum is a key of the index and its size is the stored one.
KeyHit(p) == Ck0(p) \in DOMAIN Get(filehash)
TwoFactor(p) == KeyHit(p) /\ Size0(p) = Get(filehash)[Ck0(p)].size
\* The path was there at the start and is no longer.
Gone(p) == LExists(p, disk0, links0) /\ ~LExists(p, disk, links)

\* the positions of the list that satisfy the match
Hits == {k \in 1..Len(files) : TwoFactor(files[k].path)}
RECURSIVE SumOver(_)
SumOver(K) ==
    IF K = {} THEN 0
    ELSE LET k == CHOOSE x \in K : TRUE IN files[k].size + SumOver(K \ {k})

\* C1: in a real run whose two confirmations were answered y, every file of
\* the list that the loop has processed is removed if and only if its
\* checksum is a key of the index and its size is the size stored there;
\* no other path of the filesystem disappears.
C1_TwoFactorPrune ==
    (InPrune /\ ~dry /\ BothConfirmed) =>
        /\ \A k \in 1..Len(files) :
              k < i => (Gone(files[k].path) <=> TwoFactor(files[k].path))
        /\ \A p \in Paths : Gone(p) => TwoFactor(p)

\* A confirmed real run has ended with one file removed, one file kept whose
\* checksum is a key but whose size differs, and one kept whose checksum is
\* no key.
C1_Witness ==
    /\ PruneDone /\ ~dry /\ BothConfirmed
    /\ \E a, b, c \in 1..Len(files) :
          /\ Gone(files[a].path)
          /\ KeyHit(files[b].path) /\ ~TwoFactor(files[b].path)
          /\ ~Gone(files[b].path)
          /\ ~KeyHit(files[c].path) /\ ~Gone(files[c].path)

\* C2: once a confirmation of a real run was answered with anything but y
\* or Y, prune_files has returned, the target was neither listed nor
\* fingerprinted, and the files on disk are those of the start.
C2_ConfirmationGating ==
    (~dry /\ SomeDeclined) =>
        /\ pc = "done"
        /\ ops \cap {"prune:find", "prune:cksum", "prune:remove"} = {}
        /\ disk = disk0 /\ links = links0

\* The second confirmation was answered "yes", and the target holds a file
\* that matches the index in checksum and size.
C2_Witness ==
    /\ ~dry /\ SomeDeclined /\ really_go_ahead = "yes"
    /\ prunepath = Some("B")
    /\ LExists("B/g1", disk, links) /\ TwoFactor("B/g1")

\* C3: a dry run issues no confirmation prompt and removes nothing, and at
\* its end the count is the number of files of the list that match in
\* checksum and size and the size is the sum of their sizes.
C3_DryRun ==
    dry =>
        /\ Confirms = {}
        /\ disk = disk0 /\ links = links0
        /\ "prune:remove" \notin ops
        /\ PruneDone => delcount = Cardinality(Hits) /\ delsz = SumOver(Hits)

\* A dry run has ended having counted two matching files, still on disk.
C3_Witness ==
    /\ dry /\ PruneDone
    /\ delcount = 2 /\ delsz > 0
    /\ \A k \in Hits : LExists(files[k].path, disk, links)

\* C4: a prune that was not stopped by a failing tool ends normally, with
\* the files of the list that match in checksum and size as its candidates,
\* their number as its count and the sum of their sizes as its size, in a
\* dry run and in a confirmed real run alike; the real run has removed the
\* candidates and the dry run none.
C4_DryRunEquivalence ==
    (InPrune /\ (dry \/ BothConfirmed) /\ pc \in {"done", "crashed"}
        /\ err # "cksum: failed") =>
        /\ pc = "done"
        /\ cand = {files[k].path : k \in Hits}
        /\ delcount = Cardinality(Hits)
        /\ delsz = SumOver(Hits)
        /\ \A k \in Hits : Gone(files[k].path) <=> ~dry

\* The scan has returned: files is still the list of the scanned tree.
ScanDone ==
    /\ "scan:find" \in ops /\ ~InPrune
    /\ pc # "crashed"
    /\ pc = "scan_loop" => i > Len(files)
\* The checksum of the k-th file of the list.
FileCk(k) == Ck0(files[k].path)
\* The position of the first file of the list with checksum c.
First(c) ==
    CHOOSE k \in 1..Len(files) :
        /\ FileCk(k) = c
        /\ \A j \in 1..(k - 1) : FileCk(j) # c
\* The duplicate record of the k-th file.
DupRecord(k) == <<FileCk(k), Size0(files[k].path), files[k].path>>
DupCount(k) ==
    Cardinality({j \in 1..Len(duplicates) : duplicates[j] = DupRecord(k)})

\* C5: after a scan every checksum that occurs maps to the size and path of
\* the first file of the list with that checksum, every later file with it
\* is in the duplicate list exactly once, and a first file never is.
C5_FirstWriteWins ==
    ScanDone =>
        LET fh == Get(filehash) IN
        /\ DOMAIN fh = {FileCk(k) : k \in 1..Len(files)}
        /\ \A c \in DOMAIN fh :
              fh[c] = [size |-> Size0(files[First(c)].path),
                       path |-> files[First(c)].path]
        /\ \A k \in 1..Len(files) :
              DupCount(k) = IF k = First(FileCk(k)) THEN 0 ELSE 1
        /\ Len(duplicates) = Len(files) - Cardinality(DOMAIN fh)

\* A scan of three files with one checksum has returned: one entry, two
\* duplicate records, one of them of a size other than the entry's.
C5_Witness ==
    /\ ScanDone
    /\ Len(files) = 3
    /\ Cardinality(DOMAIN Get(filehash)) = 1
    /\ Len(duplicates) = 2
    /\ \E j \in 1..2 : duplicates[j][2] # Get(filehash)[duplicates[j][1]].size

\* C6: a fingerprint that fails never ends the run.
C6_FailureNeverFatal == pc = "crashed" => err \notin CksumErrors

\* C7: no path of the list find_files returns is a symbolic link or lies
\* behind one.
C7_NoSymlinks ==
    ("scan:find" \in ops \/ InPrune) =>
        \A k \in 1..Len(files) : Via(files[k].path) = {}

\* Nothing was added to the trees and no content was changed.
NothingCreated ==
    /\ DOMAIN disk \subseteq DOMAIN disk0
    /\ \A f \in DOMAIN disk : disk[f] = disk0[f]
    /\ links \subseteq links0
\* The path is one of the list of the prune target that the loop has
\* processed, or names the same file as one.
ListedForPrune(p) ==
    /\ InPrune
    /\ \E k \in 1..Len(files) :
          /\ k < i
          /\ IF "B/lnk" \in {p, files[k].path}
             THEN files[k].path = p
             ELSE Target(files[k].path) = Target(p)

NothingSupplied == scanpath = None /\ (dbfile = None \/ prunepath = None)

\* C9: such an invocation does nothing but print its message and exit with
\* a status other than 0: no listing, fingerprint, index read or write,
\* prompt or removal ever takes place.
C9_NothingUseful ==
    NothingSupplied =>
        /\ pc \in {"main", "exit"}
        /\ ops = {} /\ prompts = <<>>
        /\ files = <<>> /\ filehash = None
        /\ disk = disk0 /\ links = links0 /\ dbf = dbf0
        /\ pc = "exit" => exitcode # 0 /\ <<"Nothing useful to do.">> \in out

\* The program has exited on an invocation that names only a prune path.
C9_Witness ==
    /\ pc = "exit"
    /\ scanpath = None /\ dbfile = None /\ IsSome(prunepath)

\* C10: write_cksums asks exactly when the file exists; it writes the index
\* when the file did not exist or the answer was y or Y, leaves the file as
\* it was on any other answer, and returns normally in every case.
C10_OverwriteGate ==
    [][pc = "write" =>
        /\ pc' = AfterIndex /\ err' = err /\ exitcode' = exitcode
        /\ IF dbf = None
           THEN /\ prompts' = prompts
                /\ dbf' = Some(Dump(Get(filehash)))
           ELSE /\ Len(prompts') = Len(prompts) + 1
                /\ prompts'[Len(prompts')].q = "overwrite"
                /\ dbf' = IF prompts'[Len(prompts')].yes
                          THEN Some(Dump(Get(filehash)))
                          ELSE dbf]_vars

\* The overwrite of an index file that differs from the scanned index was
\* declined, and the file is as it was.
C10_Witness ==
    /\ pc \in {"prune", "done"}
    /\ Len(prompts) = 1 /\ prompts[1].q = "overwrite" /\ ~prompts[1].yes
    /\ dbf = dbf0
    /\ dbf # Some(Dump(Get(filehash)))

\* What the invocation before left in memory when it ended.
Before == Get(prev)
\* The second invocation has read the index file the first one wrote.
ReadBack ==
    /\ run = 2 /\ Before.wrote
    /\ "read" \in ops /\ pc # "crashed"

\* C11: the index read from a file that the invocation before wrote has the
\* key set of the index that was written, and the same size and path under
\* every key.
C11_RoundTrip ==
    ReadBack =>
        LET got == Get(filehash)
            put == Get(Before.filehash)
        IN  /\ DOMAIN got = DOMAIN put
            /\ \A c \in DOMAIN put :
                  got[c].size = put[c].size /\ got[c].path = put[c].path

\* An index of two entries, of different sizes and paths, was written by
\* one invocation and read by the next.
C11_Witness ==
    /\ ReadBack
    /\ Cardinality(DOMAIN Get(filehash)) = 2
    /\ \E c, e \in DOMAIN Get(filehash) :
          /\ Get(filehash)[c].size # Get(filehash)[e].size
          /\ Get(filehash)[c].path # Get(filehash)[e].path

\* The second invocation scans the tree the first one scanned.
SecondScan == run = 2 /\ IsSome(scanpath)

\* C12: the loop of a scan starts with an empty index and an empty
\* duplicate list, and a second scan of the unchanged tree ends with the
\* index and the duplicate list of the first.
C12_ScanIdempotent ==
    /\ (pc = "scan_loop" /\ i = 1) =>
          filehash = Some(EmptyIndex) /\ duplicates = <<>>
    /\ (SecondScan /\ ScanDone) =>
          /\ filehash = Before.filehash
          /\ duplicates = Before.duplicates
          /\ files = Before.files

\* A second scan has ended after a first one that found a duplicate and
\* wrote its index to the index file.
C12_Witness ==
    /\ SecondScan /\ ScanDone
    /\ Before.wrote
    /\ Len(duplicates) >= 1
    /\ Cardinality(DOMAIN Get(filehash)) >= 1

\* What a run has removed from disk: regular files and symbolic links.
RemovedFiles == DOMAIN disk0 \ DOMAIN disk
RemovedLinks == links0 \ links
RECURSIVE SumDisk0(_)
SumDisk0(F) ==
    IF F = {} THEN 0
    ELSE LET f == CHOOSE x \in F : TRUE IN disk0[f].size + SumDisk0(F \ {f})
\* The size os.path.getsize gave for a symbolic link: that of its target.
LinkSizes == SumDisk0({Target(l) : l \in RemovedLinks})

ConfirmSeq == SelectSeq(prompts, LAMBDA x : x.q \in {"continue", "sure"})
\* The step lists the prune target or changes the trees.
TouchesTarget ==
    \/ "prune:find" \in ops' \ ops
    \/ "prune:cksum" \in ops' \ ops
    \/ disk' # disk
    \/ links' # links

\* C14: in a run that is not dry the first confirmation asked is the one to
\* continue, the second one is asked only after the first was answered y,
\* none is asked twice or after a refusal, and a step that lists the target
\* or removes a file is taken only after both were answered y in that
\* order.
C14_ProtocolOrder ==
    /\ [](\/ ConfirmSeq = <<>>
          \/ ConfirmSeq = <<[q |-> "continue", yes |-> FALSE]>>
          \/ ConfirmSeq = <<[q |-> "continue", yes |-> TRUE]>>
          \/ /\ Len(ConfirmSeq) = 2
             /\ ConfirmSeq[1] = [q |-> "continue", yes |-> TRUE]
             /\ ConfirmSeq[2].q = "sure")
    /\ [][(~dry /\ TouchesTarget) =>
            ConfirmSeq = <<[q |-> "continue", yes |-> TRUE],
                           [q |-> "sure", yes |-> TRUE]>>]_vars

\* A real run has removed a file after both confirmations, the overwrite
\* prompt of the index file having come before them.
C14_Witness ==
    /\ ~dry /\ "prune:remove" \in ops
    /\ Len(prompts) = 3 /\ prompts[1].q = "overwrite"

\* The k-th file of the prune list has a checksum that is a key of the index
\* and a size that differs from the stored one.
Collision(k) == KeyHit(files[k].path) /\ ~TwoFactor(files[k].path)

\* C15: every file the prune loop has processed whose checksum is a key of
\* the index but whose size differs from the stored one is still on disk,
\* has its collision report in the output whatever the verbose flag, in dry
\* and in real runs, and was not counted.
C15_CollisionReported ==
    InPrune =>
        \A k \in 1..Len(files) :
            (k < i /\ Collision(k)) =>
                /\ ~Gone(files[k].path)
                /\ <<"SIZES DO NOT MATCH, NOT DELETED", files[k].path>> \in out
                /\ files[k].path \notin cand

\* The scan loop is running, or has died, with the prefix 1..i-1 processed.
InScanLoop ==
    /\ "scan:find" \in ops /\ ~InPrune
    /\ pc \in {"scan_loop", "crashed"}
\* The position of the first file with checksum c, as First(c).
FirstOf(k) == First(FileCk(k))
\* The positions of the prefix whose file is not the first of its checksum.
Later(n) == {k \in 1..n : FirstOf(k) # k}
\* The duplicate records of the prefix 1..n, in the order of the list.
RECURSIVE DupsOf(_)
DupsOf(n) ==
    IF n = 0 THEN <<>>
    ELSE IF FirstOf(n) # n THEN Append(DupsOf(n - 1), DupRecord(n))
    ELSE DupsOf(n - 1)
\* The positions of the prefix 1..i-1 of the prune list that match.
HitsSoFar == {k \in Hits : k < i}

\* C16: while the scan loop runs the index and the duplicate list are those
\* of a complete scan of the processed prefix, so their sizes add up to the
\* number of files processed; no step rewrites an entry or a duplicate
\* record; while the prune loop runs the files removed or selected are the
\* checksum-and-size matches of the processed prefix, the counters are
\* theirs, and no path gone from disk lies outside that prefix.
C16_PartialProgress ==
    /\ [](InScanLoop =>
            LET fh == Get(filehash) IN
            /\ DOMAIN fh = {FileCk(k) : k \in 1..(i - 1)}
            /\ \A c \in DOMAIN fh :
                  /\ First(c) < i
                  /\ fh[c] = [size |-> Size0(files[First(c)].path),
                              path |-> files[First(c)].path]
            /\ duplicates = DupsOf(i - 1)
            /\ Cardinality(DOMAIN fh) + Len(duplicates) = i - 1)
    /\ []((InPrune /\ pc \in {"prune_loop", "crashed"}) =>
            /\ cand = {files[k].path : k \in HitsSoFar}
            /\ delcount = Cardinality(HitsSoFar)
            /\ delsz = SumOver(HitsSoFar)
            /\ \A k \in 1..Len(files) :
                  Gone(files[k].path) <=> (~dry /\ k \in HitsSoFar)
            /\ \A p \in Paths : Gone(p) => ListedForPrune(p))
    /\ [][(IsSome(filehash) /\ IsSome(filehash')) =>
            /\ \A c \in DOMAIN Get(filehash) :
                  /\ c \in DOMAIN Get(filehash')
                  /\ Get(filehash')[c] = Get(filehash)[c]
            /\ Len(duplicates') >= Len(duplicates)
            /\ SubSeq(duplicates', 1, Len(duplicates)) = duplicates]_vars

\* A prune has stopped half-way: one match removed, a later match of the
\* list still on disk; its index came from a scan that met a duplicate.
C16_Witness ==
    /\ InPrune /\ ~dry /\ pc = "prune_loop"
    /\ i = 2 /\ Len(files) >= 2
    /\ Gone(files[1].path)
    /\ TwoFactor(files[2].path) /\ ~Gone(files[2].path)
    /\ Len(duplicates) >= 1

\* The tree find_files has just listed, or was listing when the run died.
ListedRoot == Get(IF InPrune THEN prunepath ELSE scanpath)
\* The path is in the list with the size it has on disk.
InList(p) ==
    \E k \in 1..Len(files) :
        files[k] = [path |-> p, size |-> GetSize(p, disk)]

\* C17: when another actor removes a file while find_files lists a tree,
\* find_files does not fail, and once it has returned every regular file
\* the walk yields that is still on disk is in the list with its size, and
\* so is no file that was gone when it was looked at.
C17_ToleratesDisappearance ==
    /\ err # GetsizeError
    /\ pc \in {"scan_loop", "prune_loop"} =>
          \A k \in 1..Len(GlobAll(ListedRoot, layout)) :
              LET p == GlobAll(ListedRoot, layout)[k] IN
              (GlobMatches(p) /\ IsFile(p, disk, links)) => InList(p)

\* The prune step of main has been entered.
PruneRuns ==
    \/ pc \in {"prune", "prune_sure", "prune_find", "prune_loop"}
    \/ InPrune
\* What find_files lists of the scan path on the trees of the start.
ScanList == find_files(Get(scanpath), layout, disk0, links0)
ScanCk(k) == Ck0(ScanList[k].path)
\* The index a scan of that list builds: first file of each checksum.
ScanIndex ==
    [c \in {ScanCk(k) : k \in 1..Len(ScanList)} |->
        LET k == CHOOSE j \in 1..Len(ScanList) :
                    /\ ScanCk(j) = c
                    /\ \A h \in 1..(j - 1) : ScanCk(h) # c
        IN [size |-> ScanList[k].size, path |-> ScanList[k].path]]

\* C18: whenever the prune step runs an index is defined; with a scan path
\* it is the index the scan of this invocation built and the index file was
\* never read, without one it is the content the index file had at the
\* start.
C18_IndexProvenance ==
    /\ IsSome(scanpath) => "read" \notin ops
    /\ PruneRuns =>
          /\ IsSome(filehash)
          /\ IF IsSome(scanpath)
             THEN /\ "scan:find" \in ops
                  /\ Get(filehash) = ScanIndex
             ELSE /\ "read" \in ops
                  /\ IsSome(dbf0)
                  /\ Get(filehash) = Load(Get(dbf0))

\* Combined mode with an index file that existed and was not overwritten:
\* a real prune has removed a file on an index that differs from the file's.
C18_Witness ==
    /\ IsSome(scanpath) /\ IsSome(dbfile) /\ IsSome(dbf)
    /\ \E k \in 1..Len(prompts) : prompts[k] = [q |-> "overwrite", yes |-> FALSE]
    /\ "prune:remove" \in ops
    /\ Get(filehash) # Load(Get(dbf))

\* A confirmed real prune of the tree the index was just scanned from has
\* run to its end.
SameTreePruned ==
    /\ PruneDone /\ ~dry /\ BothConfirmed
    /\ IsSome(scanpath) /\ scanpath = prunepath
\* The regular files stored in the tree at the start.
TreeFiles == {f \in DOMAIN disk0 : DirOf(f) = Get(prunepath)}

\* C19: after a confirmed real prune of the tree the index was scanned from,
\* every regular file of the tree whose checksum is a key and whose size is
\* the stored one is gone, every representative path is gone, and no file
\* of the tree is left with the checksum and size of an entry.
C19_NoExemption ==
    SameTreePruned =>
        /\ \A f \in TreeFiles : TwoFactor(f) => f \notin DOMAIN disk
        /\ \A c \in DOMAIN Get(filehash) :
              /\ ~LExists(Get(filehash)[c].path, disk, links)
              /\ ~\E f \in TreeFiles :
                    /\ f \in DOMAIN disk
                    /\ disk[f] = [ck |-> c, size |-> Get(filehash)[c].size]

====
